---- MODULE Spec2Model ----
(***************************************************************************)
(* CatastropheSim.py: a single CPU under a Poisson workload and Poisson    *)
(* catastrophes, scheduled by FCFS, SJF, Round-Robin or Preemptive         *)
(* Priority, written on the simpy discrete-event kernel.                   *)
(*                                                                         *)
(* The model is the simpy event queue: every scheduled event is an entry   *)
(* of `queue`, ordered by (time, urgent-before-normal, insertion order),   *)
(* and one action of the model processes the head event and runs the       *)
(* generator it resumes up to that generator's next yield.  The random     *)
(* draws (expovariate, randint) are nondeterministic choices from small    *)
(* sets.  One tick of model time is 0.01 simulated seconds.                *)
(***************************************************************************)
EXTENDS Integers, Sequences, FiniteSets, TLC

\* ------------------------------------------------------------- bounds
MaxTime == 70        \* the horizon, standing for SIM_DURATION (line 12, 322)
MaxProcs == 4        \* the generator stops after this many processes

\* ------------------------------------------------- program constants
RR_QUANTUM == 30     \* RR_QUANTUM = 0.3
POLL == 10           \* env.timeout(0.1): the polls of lines 45, 115, 192, 261, 269
RR_IDLE == 1         \* env.timeout(0.01): Round-Robin's poll of an empty deque

\* ------------------------------------------------- the random draws
InterarrivalSet == {4, 20}      \* random.expovariate(LAMBDA)
BurstSet == {10, 40}            \* random.expovariate(MU)
PrioritySet == {1, 2}           \* random.randint(1, 10)
FailureSet == {20, 60}          \* random.expovariate(XI)
RepairSet == {5, 10}           \* random.expovariate(BETA)

Policies == {"FCFS", "SJF", "RR", "PP"}
Pids == 1..MaxProcs

VARIABLES
  policy,                 \* which scheduler class __main__ constructs
  now,                    \* env.now
  queue,                  \* the simpy event queue, in processing order
  system_operational,
  total_downtime,
  last_restoration_time,
  wait_times,
  recovery_times,
  is_recovering,          \* Scheduler.is_recovering
  running_process_event,  \* Scheduler.running_process_event: the pid served, 0 for None
  active_processes,       \* Scheduler.active_processes: the pids, in insertion order
  cpu_users,              \* cpu.users: the pids whose request is granted
  cpu_queue,              \* cpu.put_queue: the pids whose request waits
  stores,                 \* every ready structure ever built; the last is ready_queue
  procs,                  \* the Process objects constructed, by pid
  act,                    \* the serve_process activity of each pid
  pid_counter,            \* process_generator's pid_counter
  burst_time,             \* process_generator's burst_time
  gen_pc,                 \* where process_generator is suspended
  fault_pc,               \* where fault_injector is suspended
  repair_duration,        \* fault_injector's repair_duration
  run_pc,                 \* where Scheduler.run is suspended
  get_store,              \* the store whose get() Scheduler.run waits on
  log,                    \* the lines printed, as (kind, pid, time)
  lost,                   \* history: pids queued or on the CPU at a catastrophe
  crashed                 \* an exception left the simulation

vars == <<policy, now, queue, system_operational, total_downtime,
          last_restoration_time, wait_times, recovery_times, is_recovering,
          running_process_event, active_processes, cpu_users, cpu_queue,
          stores, procs, act, pid_counter, burst_time, gen_pc, fault_pc,
          repair_duration, run_pc, get_store, log, lost, crashed>>

\* The state as one record, so that a handler is a function from state to state.
St == [policy |-> policy, now |-> now, queue |-> queue,
       system_operational |-> system_operational,
       total_downtime |-> total_downtime,
       last_restoration_time |-> last_restoration_time,
       wait_times |-> wait_times, recovery_times |-> recovery_times,
       is_recovering |-> is_recovering,
       running_process_event |-> running_process_event,
       active_processes |-> active_processes,
       cpu_users |-> cpu_users, cpu_queue |-> cpu_queue, stores |-> stores,
       procs |-> procs, act |-> act, pid_counter |-> pid_counter,
       burst_time |-> burst_time, gen_pc |-> gen_pc, fault_pc |-> fault_pc,
       repair_duration |-> repair_duration, run_pc |-> run_pc,
       get_store |-> get_store, log |-> log, lost |-> lost,
       crashed |-> crashed]

Commit(s) ==
  /\ policy' = s.policy
  /\ now' = s.now
  /\ queue' = s.queue
  /\ system_operational' = s.system_operational
  /\ total_downtime' = s.total_downtime
  /\ last_restoration_time' = s.last_restoration_time
  /\ wait_times' = s.wait_times
  /\ recovery_times' = s.recovery_times
  /\ is_recovering' = s.is_recovering
  /\ running_process_event' = s.running_process_event
  /\ active_processes' = s.active_processes
  /\ cpu_users' = s.cpu_users
  /\ cpu_queue' = s.cpu_queue
  /\ stores' = s.stores
  /\ procs' = s.procs
  /\ act' = s.act
  /\ pid_counter' = s.pid_counter
  /\ burst_time' = s.burst_time
  /\ gen_pc' = s.gen_pc
  /\ fault_pc' = s.fault_pc
  /\ repair_duration' = s.repair_duration
  /\ run_pc' = s.run_pc
  /\ get_store' = s.get_store
  /\ log' = s.log
  /\ lost' = s.lost
  /\ crashed' = s.crashed

\* ------------------------------------------------------ sequences
Range(q) == {q[i] : i \in 1..Len(q)}

Remove(q, x) == SelectSeq(q, LAMBDA y : y # x)

\* ------------------------------------------------- the event queue
\* An event: when it is due, whether it is URGENT (an Initialize or an
\* Interruption) or NORMAL, what it is, and whom or what it concerns.
Ev(t, u, k, p, st, c) ==
  [time |-> t, urgent |-> u, kind |-> k, pid |-> p, store |-> st, cause |-> c]

\* x is processed before a newly scheduled e: an earlier time, or the same time
\* and not a lower priority (the same priority: the older event goes first).
Precedes(x, e) ==
  \/ x.time < e.time
  \/ x.time = e.time /\ (x.urgent \/ ~e.urgent)

\* env.schedule: heappush on (time, priority, eid).
Insert(q, e) ==
  LET k == Cardinality({i \in 1..Len(q) : Precedes(q[i], e)})
  IN SubSeq(q, 1, k) \o <<e>> \o SubSeq(q, k + 1, Len(q))

Schedule(s, e) == [s EXCEPT !.queue = Insert(@, e)]

\* env.timeout(d), yielded by the generator named by kind (and pid).
Timeout(s, kind, p, d) == Schedule(s, Ev(s.now + d, FALSE, kind, p, 0, ""))

\* print(...)
Log(s, kind, p) ==
  [s EXCEPT !.log = Append(@, [kind |-> kind, pid |-> p, at |-> s.now])]

\* self.ready_queue
ReadyOf(s) == s.stores[Len(s.stores)]

ready_queue == stores[Len(stores)]

\* event.triggered, of the Process event of a serve_process activity
Triggered(s, p) == s.act[p].pc \in {"done", "failed", "interrupted", "preempted", "crashed"}

\* ------------------------------------------------------------ heapq
\* PriorityItem.__lt__: items compare by priority alone, and the priority of
\* an item is the burst_time_initial of its process.
ItemLess(P, a, b) == P[a].burst_time_initial < P[b].burst_time_initial

\* heapq._siftdown(heap, startpos, pos), positions counted from 0.
RECURSIVE SiftDown(_, _, _, _, _)
SiftDown(P, h, startpos, pos, newitem) ==
  IF pos > startpos
  THEN LET parentpos == (pos - 1) \div 2
           parent == h[parentpos + 1]
       IN IF ItemLess(P, newitem, parent)
          THEN SiftDown(P, [h EXCEPT ![pos + 1] = parent], startpos, parentpos, newitem)
          ELSE [h EXCEPT ![pos + 1] = newitem]
  ELSE [h EXCEPT ![pos + 1] = newitem]

\* heapq.heappush
HeapPush(P, h, item) == SiftDown(P, Append(h, item), 0, Len(h), item)

\* heapq._siftup(heap, pos)
RECURSIVE SiftUp(_, _, _, _, _)
SiftUp(P, h, startpos, pos, newitem) ==
  LET endpos == Len(h)
      childpos == 2 * pos + 1
      rightpos == childpos + 1
      c == IF rightpos < endpos /\ ~ItemLess(P, h[childpos + 1], h[rightpos + 1])
           THEN rightpos ELSE childpos
  IN IF childpos < endpos
     THEN SiftUp(P, [h EXCEPT ![pos + 1] = h[c + 1]], startpos, c, newitem)
     ELSE SiftDown(P, [h EXCEPT ![pos + 1] = newitem], startpos, pos, newitem)

\* heapq.heappop: the item returned and the heap left.
HeapPop(P, h) ==
  LET lastelt == h[Len(h)]
      rest == SubSeq(h, 1, Len(h) - 1)
  IN IF rest = <<>>
     THEN [item |-> lastelt, heap |-> rest]
     ELSE [item |-> rest[1],
           heap |-> SiftUp(P, [rest EXCEPT ![1] = lastelt], 0, 0, lastelt)]

\* ------------------------------------------- simpy.Store, PriorityStore
\* Store._do_put / PriorityStore._do_put: the items after one more.
ItemsPut(s, items, p) ==
  IF s.policy = "SJF" THEN HeapPush(s.procs, items, p) ELSE Append(items, p)

\* Mutant of ItemsGet: a Store hands out its newest item.
ItemsGetNewest(s, items) ==
  IF s.policy = "SJF" THEN HeapPop(s.procs, items)
  ELSE [item |-> items[Len(items)], heap |-> SubSeq(items, 1, Len(items) - 1)]

\* Store._do_get / PriorityStore._do_get: the item taken and the items left.
ItemsGet(s, items) ==
  IF s.policy = "SJF" THEN HeapPop(s.procs, items)
  ELSE [item |-> Head(items), heap |-> Tail(items)]

\* BaseResource._trigger_get of store sid: a pending get() takes an item as
\* soon as there is one; its event is then scheduled and resumes Scheduler.run.
TriggerGet(s, sid) ==
  IF s.run_pc = "get_wait" /\ s.get_store = sid /\ s.stores[sid] # <<>>
  THEN LET g == ItemsGet(s, s.stores[sid])
       IN Schedule([s EXCEPT !.stores[sid] = g.heap, !.run_pc = "get_ready"],
                   Ev(s.now, FALSE, "get", g.item, sid, ""))
  ELSE s

\* self.ready_queue.put(item): the item is stored at once; the put event, when
\* processed, calls _trigger_get of the store it was put into.
StorePut(s, p) ==
  LET sid == Len(s.stores)
  IN Schedule([s EXCEPT !.stores[sid] = ItemsPut(s, @, p)],
              Ev(s.now, FALSE, "put", p, sid, ""))

\* yield self.ready_queue.get()
StoreGet(s) ==
  LET sid == Len(s.stores)
  IN TriggerGet([s EXCEPT !.run_pc = "get_wait", !.get_store = sid], sid)

\* ------------------------- simpy.Resource, simpy.PreemptiveResource
\* PriorityRequest.key = (priority, time): the key of p's request, made when
\* serve_process starts.
KeyLess(s, a, b) ==
  \/ s.procs[a].priority < s.procs[b].priority
  \/ /\ s.procs[a].priority = s.procs[b].priority
     /\ s.act[a].start_wait < s.act[b].start_wait

\* put_queue.append(request): a list for Resource, a SortedQueue (a stable
\* sort by key after every append) for PreemptiveResource.
QueueAppend(s, q, p) ==
  IF s.policy = "PP"
  THEN LET k == Cardinality({i \in 1..Len(q) : ~KeyLess(s, p, q[i])})
       IN SubSeq(q, 1, k) \o <<p>> \o SubSeq(q, k + 1, Len(q))
  ELSE Append(q, p)

\* process.interrupt(cause): an URGENT Interruption event.
Interrupt(s, p, cause) == Schedule(s, Ev(s.now, TRUE, "interrupt", p, 0, cause))

\* Mutant of Preempt: a request of equal priority displaces the user too.
PreemptOnEqualPriority(s, p) ==
  IF s.policy = "PP" /\ Len(s.cpu_users) >= 1
  THEN LET u == s.cpu_users[Len(s.cpu_users)]
       IN IF s.procs[p].priority <= s.procs[u].priority
          THEN Interrupt([s EXCEPT !.cpu_users = Remove(@, u)], u, "preempted")
          ELSE s
  ELSE s

\* PreemptiveResource._do_put, its own part: a full resource whose user has a
\* greater key than the request loses that user, which is interrupted.
Preempt(s, p) ==
  IF s.policy = "PP" /\ Len(s.cpu_users) >= 1
  THEN LET u == s.cpu_users[Len(s.cpu_users)]
       IN IF KeyLess(s, p, u)
          THEN Interrupt([s EXCEPT !.cpu_users = Remove(@, u)], u, "preempted")
          ELSE s
  ELSE s

\* Mutant of Grant: the capacity of the resource is not checked.
GrantWithoutCapacity(s, p) ==
  Schedule([s EXCEPT !.cpu_users = Append(@, p), !.cpu_queue = Remove(@, p)],
           Ev(s.now, FALSE, "req", p, 0, ""))

\* Resource._do_put: a request is granted while there is capacity.
Grant(s, p) ==
  IF Len(s.cpu_users) < 1
  THEN Schedule([s EXCEPT !.cpu_users = Append(@, p),
                          !.cpu_queue = Remove(@, p)],
                Ev(s.now, FALSE, "req", p, 0, ""))
  ELSE s

\* BaseResource._trigger_put of the cpu: _do_put returns None, so only the
\* request at the head of put_queue is tried.
TriggerPut(s) ==
  IF s.cpu_queue = <<>> THEN s
  ELSE Grant(Preempt(s, Head(s.cpu_queue)), Head(s.cpu_queue))

\* self.cpu.request(...)
Request(s, p) == TriggerPut([s EXCEPT !.cpu_queue = QueueAppend(s, @, p)])

\* Request.__exit__ at the end of the with block: cancel() takes an ungranted
\* request out of put_queue, release() takes the request out of users; the
\* Release event, when processed, calls _trigger_put.
Release(s, p) ==
  Schedule([s EXCEPT !.cpu_queue = Remove(@, p), !.cpu_users = Remove(@, p)],
           Ev(s.now, FALSE, "release", p, 0, ""))

\* Interruption._interrupt: the interrupted generator no longer waits for the
\* event it had yielded, which leaves that event without effect.
Unwait(s, p) ==
  [s EXCEPT !.queue = SelectSeq(@, LAMBDA e :
      ~(e.pid = p /\ e.kind \in {"req", "serve_timeout"}))]

\* ------------------------------------------------- serve_process
NoAct == [pc |-> "none", start_wait |-> -1, start_exec_time |-> -1, time_to_run |-> 0]

\* env.process(self.serve_process(process)): an URGENT Initialize event.
Spawn(s, p) ==
  Schedule([s EXCEPT !.act[p] = [NoAct EXCEPT !.pc = "init"]],
           Ev(s.now, TRUE, "serve_init", p, 0, ""))

\* A serve_process generator of a non-preemptive or Round-Robin scheduler
\* ends: its Process event is scheduled, carrying the exception if it failed.
Ended(s, p, cause) == Schedule(s, Ev(s.now, FALSE, "ended", p, 0, cause))

\* NonPreemptiveScheduler.serve_process and RR_Scheduler.serve_process, up to
\* `yield req`.
ServeRequest(s, p) == Request([s EXCEPT !.act[p].pc = "req"], p)

\* Preemptive_Priority_Scheduler.serve_process, up to `yield req`.
PPServeRequest(s, p) ==
  LET s1 == Request([s EXCEPT !.act[p].pc = "req", !.act[p].start_wait = s.now], p)
  IN [s1 EXCEPT !.active_processes = Append(@, p)]

\* NonPreemptiveScheduler.serve_process, from the grant to the burst's timeout.
NPServeGranted(s, p) ==
  LET wait_time == s.now - s.procs[p].arrival_time
      s1 == [s EXCEPT !.wait_times = Append(@, wait_time), !.act[p].pc = "exec"]
  IN Timeout(Log(s1, "EXECUTE", p), "serve_timeout", p, s.procs[p].burst_time_initial)

\* Mutant of RRFirstSlice: every slice is taken for the first.
RREverySliceFirst(s, p) == TRUE

\* RR_Scheduler.serve_process: whether the slice is the process's first.
RRFirstSlice(s, p) ==
  s.procs[p].burst_time_remaining = s.procs[p].burst_time_initial

Min(a, b) == IF a < b THEN a ELSE b

\* Mutant of RRTimeToRun: the slice is the quantum, whatever remains.
RRWholeQuantum(s, p) == RR_QUANTUM

\* RR_Scheduler.serve_process: time_to_run
RRTimeToRun(s, p) == Min(RR_QUANTUM, s.procs[p].burst_time_remaining)

\* RR_Scheduler.serve_process, from the grant to the slice's timeout.
RRServeGranted(s, p) ==
  LET s1 == IF RRFirstSlice(s, p)
            THEN Log([s EXCEPT !.wait_times =
                        Append(@, s.now - s.procs[p].arrival_time)], "EXECUTE", p)
            ELSE Log(s, "RESUME", p)
      time_to_run == RRTimeToRun(s, p)
  IN Timeout([s1 EXCEPT !.act[p].pc = "exec", !.act[p].time_to_run = time_to_run],
             "serve_timeout", p, time_to_run)

\* Preemptive_Priority_Scheduler.serve_process, from the grant to the timeout.
PPServeGranted(s, p) ==
  LET wait_time == s.now - s.act[p].start_wait
      s1 == [s EXCEPT !.active_processes = Remove(@, p),
                      !.wait_times = Append(@, wait_time),
                      !.act[p].pc = "exec",
                      !.act[p].start_exec_time = s.now]
  IN Timeout(Log(s1, "EXECUTE", p), "serve_timeout", p,
             s.procs[p].burst_time_remaining)

\* NonPreemptiveScheduler.serve_process after the burst: it completes.
NPServeDone(s, p) ==
  Ended(Release(Log([s EXCEPT !.act[p].pc = "done"], "COMPLETE", p), p), p, "")

\* Mutant of RRServeDone: an unfinished process goes to the head of the deque.
RRServeDoneToHead(s, p) ==
  LET rem == s.procs[p].burst_time_remaining - s.act[p].time_to_run
      s1 == [s EXCEPT !.procs[p].burst_time_remaining = rem, !.act[p].pc = "done"]
      s2 == IF rem > 0
            THEN [Log(s1, "PREEMPT", p) EXCEPT !.stores[1] = <<p>> \o @]
            ELSE Log(s1, "COMPLETE", p)
  IN Ended(Release(s2, p), p, "")

\* RR_Scheduler.serve_process after the slice.
RRServeDone(s, p) ==
  LET rem == s.procs[p].burst_time_remaining - s.act[p].time_to_run
      s1 == [s EXCEPT !.procs[p].burst_time_remaining = rem, !.act[p].pc = "done"]
      s2 == IF rem > 0
            THEN [Log(s1, "PREEMPT", p) EXCEPT !.stores[1] = Append(@, p)]
            ELSE Log(s1, "COMPLETE", p)
  IN Ended(Release(s2, p), p, "")

\* Preemptive_Priority_Scheduler.serve_process after its timeout: it completes.
PPServeDone(s, p) ==
  LET s1 == Log([s EXCEPT !.act[p].pc = "done"], "COMPLETE", p)
  IN Release([s1 EXCEPT !.stores[1] = Remove(@, p)], p)

\* An Interrupt raised in a serve_process that does not catch it (FCFS, SJF,
\* Round-Robin): the with block releases the cpu and the generator fails.
ServeFails(s, p, cause) ==
  Ended(Release([Unwait(s, p) EXCEPT !.act[p].pc = "failed"], p), p, cause)

\* Mutant of PPServeInterrupted: a displaced process requests the cpu afresh.
PPServeInterruptedRequeues(s, p, cause) ==
  LET s1 == Release(Unwait(s, p), p)
      s2 == [s1 EXCEPT !.active_processes = Remove(@, p)]
      time_spent_executing == s.now - s.act[p].start_exec_time
  IN IF cause = "catastrophe"
     THEN Log([s2 EXCEPT !.act[p].pc = "interrupted"], "INTERRUPT", p)
     ELSE IF s.act[p].start_exec_time < 0
     THEN [s2 EXCEPT !.act[p].pc = "crashed", !.crashed = TRUE]
     ELSE Spawn(Log([s2 EXCEPT !.procs[p].burst_time_remaining = @ - time_spent_executing],
                    "PREEMPT", p), p)

\* Preemptive_Priority_Scheduler.serve_process, its except clause.  A preempted
\* activity that was never granted the cpu has no start_exec_time: the
\* UnboundLocalError leaves the generator and ends env.run.
PPServeInterrupted(s, p, cause) ==
  LET s1 == Release(Unwait(s, p), p)
      s2 == [s1 EXCEPT !.active_processes = Remove(@, p)]
      time_spent_executing == s.now - s.act[p].start_exec_time
  IN IF cause = "catastrophe"
     THEN Log([s2 EXCEPT !.act[p].pc = "interrupted"], "INTERRUPT", p)
     ELSE IF s.act[p].start_exec_time < 0
     THEN [s2 EXCEPT !.act[p].pc = "crashed", !.crashed = TRUE]
     ELSE Log([s2 EXCEPT !.act[p].pc = "preempted",
                         !.procs[p].burst_time_remaining = @ - time_spent_executing],
              "PREEMPT", p)

\* ------------------------------------------------- Scheduler.run
\* Mutant of CloseRecovery: the sample is recorded and the flag is left set.
CloseRecoveryKeepFlag(s) ==
  IF s.is_recovering /\ Len(s.cpu_users) = 0 /\ ReadyOf(s) = <<>>
  THEN [s EXCEPT !.recovery_times = Append(@, s.now - s.last_restoration_time)]
  ELSE s

\* Mutant of CloseRecovery: the check does not look at the cpu.
CloseRecoveryCpuBusy(s) ==
  IF s.is_recovering /\ ReadyOf(s) = <<>>
  THEN LET recovery_time == s.now - s.last_restoration_time
       IN [s EXCEPT !.recovery_times =
                       IF recovery_time > 0 THEN Append(@, recovery_time) ELSE @,
                    !.is_recovering = FALSE]
  ELSE s

\* The recovery check of every run loop.  Times are whole ticks of 0.01, so
\* recovery_time > 1e-6 is recovery_time > 0.
CloseRecovery(s) ==
  IF s.is_recovering /\ Len(s.cpu_users) = 0 /\ ReadyOf(s) = <<>>
  THEN LET recovery_time == s.now - s.last_restoration_time
       IN [s EXCEPT !.recovery_times =
                       IF recovery_time > 0 THEN Append(@, recovery_time) ELSE @,
                    !.is_recovering = FALSE]
  ELSE s

\* `if not system_operational: yield self.env.timeout(0.1); continue`
PollDown(s) == Timeout([s EXCEPT !.run_pc = "poll_down"], "run_timeout", 0, POLL)

\* self.running_process_event = self.env.process(self.serve_process(process));
\* yield self.running_process_event
StartServe(s, p) ==
  Spawn([s EXCEPT !.running_process_event = p, !.run_pc = "serve_wait"], p)

\* NonPreemptiveScheduler.run, one pass from `while True` to its yield.
NPRun(s) ==
  IF ~s.system_operational THEN PollDown(s) ELSE StoreGet(CloseRecovery(s))

\* RR_Scheduler.run, one pass from `while True` to its yield.
RRRun(s) ==
  IF ~s.system_operational THEN PollDown(s)
  ELSE LET s1 == CloseRecovery(s)
       IN IF ReadyOf(s1) = <<>>
          THEN Timeout([s1 EXCEPT !.run_pc = "idle_poll"], "run_timeout", 0, RR_IDLE)
          ELSE StartServe([s1 EXCEPT !.stores[1] = Tail(@)], Head(ReadyOf(s1)))

\* Preemptive_Priority_Scheduler.run, one pass from `while True` to its yield.
PPRun(s) ==
  IF ~s.system_operational THEN PollDown(s)
  ELSE Timeout([CloseRecovery(s) EXCEPT !.run_pc = "pp_poll"], "run_timeout", 0, POLL)

Run(s) ==
  CASE s.policy \in {"FCFS", "SJF"} -> NPRun(s)
    [] s.policy = "RR" -> RRRun(s)
    [] s.policy = "PP" -> PPRun(s)

\* The run loop of FCFS, SJF or Round-Robin resumes from
\* `yield self.running_process_event`, catching the Interrupt if there is one.
RunAfterServe(s, p, cause) ==
  Run(IF cause = "catastrophe" THEN Log(s, "INTERRUPT", p) ELSE s)

\* ------------------------------------------------- add_process
AddProcess(s, p) ==
  CASE s.policy \in {"FCFS", "SJF"} -> StorePut(s, p)
    [] s.policy = "RR" -> [s EXCEPT !.stores[1] = Append(@, p)]
    [] s.policy = "PP" -> Spawn([s EXCEPT !.stores[1] = Append(@, p)], p)

\* ------------------------------------------------- handle_catastrophe
\* Scheduler.handle_catastrophe
BaseHandleCatastrophe(s) ==
  LET e == s.running_process_event
      s1 == IF e # 0 /\ ~Triggered(s, e) THEN Interrupt(s, e, "catastrophe") ELSE s
  IN [s1 EXCEPT !.is_recovering = FALSE]

\* Preemptive_Priority_Scheduler.handle_catastrophe, its loop over
\* self.active_processes.values()
RECURSIVE InterruptAll(_, _)
InterruptAll(s, ps) ==
  IF ps = <<>> THEN s
  ELSE InterruptAll(IF ~Triggered(s, Head(ps))
                    THEN Interrupt(s, Head(ps), "catastrophe") ELSE s,
                    Tail(ps))

HandleCatastrophe(s) ==
  CASE s.policy \in {"FCFS", "SJF"} ->
         [BaseHandleCatastrophe(s) EXCEPT !.stores = Append(@, <<>>)]
    [] s.policy = "RR" ->
         [BaseHandleCatastrophe(s) EXCEPT !.stores[1] = <<>>]
    [] s.policy = "PP" ->
         [BaseHandleCatastrophe(InterruptAll(s, s.active_processes))
            EXCEPT !.stores[1] = <<>>]

\* ------------------------------------------------- process_generator
\* Process(pid_counter, env.now, burst_time), the [ARRIVAL] line and
\* scheduler.add_process(new_process)
Admit(s, prio) ==
  LET p == s.pid_counter
      new_process == [pid |-> p, arrival_time |-> s.now,
                      burst_time_initial |-> s.burst_time,
                      burst_time_remaining |-> s.burst_time,
                      priority |-> prio]
  IN AddProcess(Log([s EXCEPT !.procs = Append(@, new_process)], "ARRIVAL", p), p)

\* The top of `while True`: the next interarrival_time is drawn and waited
\* for.  The model draws no more than MaxProcs processes.
NextArrival(s, ia) ==
  IF s.pid_counter < MaxProcs
  THEN Timeout([s EXCEPT !.gen_pc = "wait_arrival"], "gen_timeout", 0, ia)
  ELSE [s EXCEPT !.gen_pc = "stopped"]

\* Mutant of AdmitOrPoll: the generator admits without looking at the flag.
AdmitWithoutPolling(s, prio, ia) == NextArrival(Admit(s, prio), ia)

\* `while not system_operational: yield env.timeout(0.1)`, then the admission.
AdmitOrPoll(s, prio, ia) ==
  IF ~s.system_operational
  THEN Timeout([s EXCEPT !.gen_pc = "poll"], "gen_timeout", 0, POLL)
  ELSE NextArrival(Admit(s, prio), ia)

\* After the interarrival timeout: pid_counter += 1 and the burst is drawn.
Arrive(s, b, prio, ia) ==
  AdmitOrPoll([s EXCEPT !.pid_counter = @ + 1, !.burst_time = b], prio, ia)

\* ------------------------------------------------- fault_injector
\* The top of `while True`: time_to_failure is drawn and waited for.
NextFailure(s, ttf) ==
  Timeout([s EXCEPT !.fault_pc = "wait_failure"], "fault_timeout", 0, ttf)

\* After the time_to_failure timeout.
Fail(s, ttf, rd) ==
  IF s.system_operational
  THEN LET s1 == Log([s EXCEPT !.system_operational = FALSE,
                               !.lost = @ \cup Range(ReadyOf(s)) \cup Range(s.cpu_users)],
                     "CATASTROPHE", 0)
       IN Timeout([HandleCatastrophe(s1) EXCEPT !.fault_pc = "repairing",
                                                !.repair_duration = rd],
                  "fault_timeout", 0, rd)
  ELSE NextFailure(s, ttf)

\* Mutant of Restore: total_downtime is set to the last repair, not added to.
RestoreOverwrites(s, ttf) ==
  NextFailure(Log([s EXCEPT !.total_downtime = s.repair_duration,
                            !.system_operational = TRUE,
                            !.last_restoration_time = s.now,
                            !.is_recovering = TRUE],
                  "RESTORED", 0),
              ttf)

\* After the repair_duration timeout.
Restore(s, ttf) ==
  NextFailure(Log([s EXCEPT !.total_downtime = @ + s.repair_duration,
                            !.system_operational = TRUE,
                            !.last_restoration_time = s.now,
                            !.is_recovering = TRUE],
                  "RESTORED", 0),
              ttf)

\* ------------------------------------------------- the simulation
\* __main__: the scheduler (whose __init__ starts its run loop), then the
\* process generator, then the fault injector; each starts with an URGENT
\* Initialize event at time 0.
Init ==
  /\ policy \in Policies
  /\ now = 0
  /\ queue = <<Ev(0, TRUE, "run_init", 0, 0, ""),
               Ev(0, TRUE, "gen_init", 0, 0, ""),
               Ev(0, TRUE, "fault_init", 0, 0, "")>>
  /\ system_operational = TRUE
  /\ total_downtime = 0
  /\ last_restoration_time = 0
  /\ wait_times = <<>>
  /\ recovery_times = <<>>
  /\ is_recovering = FALSE
  /\ running_process_event = 0
  /\ active_processes = <<>>
  /\ cpu_users = <<>>
  /\ cpu_queue = <<>>
  /\ stores = << <<>> >>
  /\ procs = <<>>
  /\ act = [p \in Pids |-> NoAct]
  /\ pid_counter = 0
  /\ burst_time = 0
  /\ gen_pc = "init"
  /\ fault_pc = "init"
  /\ repair_duration = 0
  /\ run_pc = "init"
  /\ get_store = 0
  /\ log = <<>>
  /\ lost = {}
  /\ crashed = FALSE

\* env.run(until=SIM_DURATION) processes the next event while it is due before
\* the horizon, and stops at an exception that leaves a generator.
Due(kind) ==
  /\ ~crashed
  /\ queue # <<>>
  /\ Head(queue).time < MaxTime
  /\ Head(queue).kind = kind

\* env.step: the head event is taken and the clock moves to it.
Step == [St EXCEPT !.now = Head(queue).time, !.queue = Tail(queue)]

RunStart == Due("run_init") /\ Commit(Run(Step))

GenStart ==
  /\ Due("gen_init")
  /\ \E ia \in InterarrivalSet : Commit(NextArrival(Step, ia))

FaultStart ==
  /\ Due("fault_init")
  /\ \E ttf \in FailureSet : Commit(NextFailure(Step, ttf))

\* random.randint(1, 10) in Process.__init__.  Only Preemptive Priority ever
\* reads a process's priority (line 275); under the other policies the field is
\* dead and the draw is kept to one value.
PriorityDraw == IF policy = "PP" THEN PrioritySet ELSE {1}

GenArrival ==
  /\ Due("gen_timeout") /\ gen_pc = "wait_arrival"
  /\ \E b \in BurstSet, prio \in PriorityDraw, ia \in InterarrivalSet :
       Commit(Arrive(Step, b, prio, ia))

GenPoll ==
  /\ Due("gen_timeout") /\ gen_pc = "poll"
  /\ \E prio \in PriorityDraw, ia \in InterarrivalSet :
       Commit(AdmitOrPoll(Step, prio, ia))

FaultFire ==
  /\ Due("fault_timeout") /\ fault_pc = "wait_failure"
  /\ \E ttf \in FailureSet, rd \in RepairSet : Commit(Fail(Step, ttf, rd))

FaultRestore ==
  /\ Due("fault_timeout") /\ fault_pc = "repairing"
  /\ \E ttf \in FailureSet : Commit(Restore(Step, ttf))

\* A timeout of the run loop: the poll while down, Round-Robin's idle poll,
\* Preemptive Priority's periodic check.
RunPoll == Due("run_timeout") /\ Commit(Run(Step))

\* A put event of a store: its callback is the store's _trigger_get.
StorePutEvent == Due("put") /\ Commit(TriggerGet(Step, Head(queue).store))

\* A get event: the run loop of FCFS or SJF resumes with the item.
RunGot == Due("get") /\ Commit(StartServe(Step, Head(queue).pid))

\* The Initialize event of a serve_process.
ServeStart ==
  /\ Due("serve_init")
  /\ Commit(IF policy = "PP" THEN PPServeRequest(Step, Head(queue).pid)
            ELSE ServeRequest(Step, Head(queue).pid))

\* A request event: the activity resumes holding the cpu.
ServeGranted ==
  /\ Due("req")
  /\ LET p == Head(queue).pid
     IN Commit(CASE policy \in {"FCFS", "SJF"} -> NPServeGranted(Step, p)
                 [] policy = "RR" -> RRServeGranted(Step, p)
                 [] policy = "PP" -> PPServeGranted(Step, p))

\* The timeout of a burst or slice.
ServeDone ==
  /\ Due("serve_timeout")
  /\ LET p == Head(queue).pid
     IN Commit(CASE policy \in {"FCFS", "SJF"} -> NPServeDone(Step, p)
                 [] policy = "RR" -> RRServeDone(Step, p)
                 [] policy = "PP" -> PPServeDone(Step, p))

\* An Interruption event: nothing if the activity has ended meanwhile.
ServeInterrupt ==
  /\ Due("interrupt")
  /\ LET p == Head(queue).pid
         cause == Head(queue).cause
     IN Commit(IF Triggered(St, p) THEN Step
               ELSE IF policy = "PP" THEN PPServeInterrupted(Step, p, cause)
               ELSE ServeFails(Step, p, cause))

\* The Process event of a serve_process: the run loop that yielded it resumes.
ServeEnded ==
  /\ Due("ended")
  /\ Commit(RunAfterServe(Step, Head(queue).pid, Head(queue).cause))

\* A Release event of the cpu: its callback is the cpu's _trigger_put.
CpuReleaseEvent == Due("release") /\ Commit(TriggerPut(Step))

Next ==
  \/ RunStart \/ GenStart \/ FaultStart
  \/ GenArrival \/ GenPoll
  \/ FaultFire \/ FaultRestore
  \/ RunPoll \/ StorePutEvent \/ RunGot
  \/ ServeStart \/ ServeGranted \/ ServeDone \/ ServeInterrupt \/ ServeEnded
  \/ CpuReleaseEvent

Spec == Init /\ [][Next]_vars

\* __main__: availability, in whole percent, over the horizon.
availability == ((MaxTime - total_downtime) * 100) \div MaxTime

\* ================================================================ claims
\* The lines printed by the step being taken.
NewLines == SubSeq(log', Len(log) + 1, Len(log'))

\* The step is fault_injector's catastrophe: the flag falls and, in the same
\* step, scheduler.handle_catastrophe() runs.
CatastropheStep == system_operational /\ ~system_operational'

\* The queue holds an Interruption of p's serve_process with cause "catastrophe".
CatastropheInterruptPending(q, p) ==
  \E i \in 1..Len(q) :
    q[i].kind = "interrupt" /\ q[i].pid = p /\ q[i].cause = "catastrophe"

\* C1: under each policy, when handle_catastrophe() runs while a serve_process
\* holds the cpu, right afterwards the ready structure is empty and the holder
\* has an interruption with cause "catastrophe" coming.
C1_CatastropheInterruptsHolder ==
  [][CatastropheStep =>
       /\ ready_queue' = <<>>
       /\ \A h \in Range(cpu_users) : CatastropheInterruptPending(queue', h)]_vars

\* C2: a process queued or on the cpu at a catastrophe is lost for good: from
\* then on it is never granted the cpu, never logs completion, and is in no
\* ready structure and not on the cpu while the system is operational.
C2_LostForever ==
  [][\A p \in lost :
       /\ \A i \in 1..Len(NewLines) :
            ~(NewLines[i].pid = p /\ NewLines[i].kind \in {"EXECUTE", "RESUME", "COMPLETE"})
       /\ system_operational' =>
            p \notin Range(ready_queue') \cup Range(cpu_users')]_vars

\* The run loop waits on get() of a store that handle_catastrophe() has
\* replaced, that store is empty and no put event of it is pending: nothing
\* refers to the store any more, so nothing will ever wake the loop.
Orphaned ==
  /\ run_pc = "get_wait"
  /\ get_store < Len(stores)
  /\ stores[get_store] = <<>>
  /\ \A i \in 1..Len(queue) : ~(queue[i].kind = "put" /\ queue[i].store = get_store)

\* C3: service resumes after repair: a process admitted after the restoration
\* is granted the cpu in the end; in particular the run loop is never left
\* blocked for ever on a ready structure that handle_catastrophe() replaced
\* while the loop waited on it, with admitted processes waiting in the new one.
C3_ServiceResumesAfterRepair ==
  ~(Orphaned /\ system_operational /\ ready_queue # <<>>)

\* C4: while system_operational is false no serve_process is granted the cpu:
\* no process starts or resumes service, no Round-Robin slice begins.
C4_NoServiceWhileDown ==
  [][\A p \in Pids :
       (act[p].pc # "exec" /\ act'[p].pc = "exec") => system_operational]_vars

\* The serve_process activities that have resumed from `yield req` and are
\* inside their burst or slice.
Executing == {p \in Pids : act[p].pc = "exec"}

\* C5: at most one serve_process holds the cpu at any instant, by the
\* resource's count (cpu.users) and by the activities running a burst; also
\* right after a preemption and after an interruption by catastrophe.
C5_AtMostOneHolder == Len(cpu_users) <= 1 /\ Cardinality(Executing) <= 1

\* Preemptive Priority: one activity has been preempted and another holds the cpu.
C5_Witness ==
  /\ policy = "PP"
  /\ \E p \in Pids : act[p].pc = "preempted"
  /\ \E q \in Pids : act[q].pc = "exec" /\ cpu_users = <<q>>

\* The [ARRIVAL] lines: one per call of add_process.
Arrivals == SelectSeq(log, LAMBDA l : l.kind = "ARRIVAL")

\* Every process drawn so far has been admitted, once and in the order drawn,
\* or is the one the generator is polling for; its arrival_time is the time of
\* its admission; a polling generator has its next look within POLL.
AdmittedOnce ==
  /\ Len(Arrivals) = Len(procs)
  /\ \A i \in 1..Len(procs) :
       Arrivals[i].pid = i /\ procs[i].pid = i /\ Arrivals[i].at = procs[i].arrival_time
  /\ pid_counter = Len(procs) + (IF gen_pc = "poll" THEN 1 ELSE 0)
  /\ gen_pc = "poll" =>
       \E i \in 1..Len(queue) :
         queue[i].kind = "gen_timeout" /\ queue[i].time <= now + POLL

\* A step that admits a process, or that adds a process to any ready
\* structure, is taken with the system operational.
AdmittedWhileUp ==
  /\ Len(procs') > Len(procs) =>
       /\ system_operational /\ system_operational'
       /\ Len(procs') = Len(procs) + 1
       /\ procs'[Len(procs')].arrival_time = now'
  /\ \A sid \in 1..Len(stores) :
       Range(stores'[sid]) \ Range(stores[sid]) # {} => system_operational'

\* C6: admission is delayed, never rejected: every process drawn is handed to
\* add_process once, at an instant when system_operational is true, which is
\* its arrival_time; no process is added to a ready structure while down.
C6_AdmissionDelayedNeverRejected == []AdmittedOnce /\ [][AdmittedWhileUp]_vars

\* A process drawn while the system was down has been admitted after the
\* repair: its arrival is later than any interarrival draw after its predecessor.
C6_Witness ==
  \E p \in 2..Len(procs) :
    /\ procs[p].arrival_time - procs[p - 1].arrival_time \notin InterarrivalSet
    /\ \E i \in 1..Len(log) : log[i].kind = "RESTORED" /\ log[i].at < procs[p].arrival_time

\* The restorations so far.
Restorations == Len(SelectSeq(log, LAMBDA l : l.kind = "RESTORED"))

\* C7: at most one recovery-time sample per catastrophe/restoration pair: a
\* sample is appended only by closing an open window, a window is opened only
\* by a restoration, so samples plus the open window never exceed the
\* restorations; without a restoration there is no sample.
C7_OneSamplePerRestoration ==
  /\ [](Len(recovery_times) + (IF is_recovering THEN 1 ELSE 0) <= Restorations)
  /\ [][Len(recovery_times') > Len(recovery_times) =>
          /\ Len(recovery_times') = Len(recovery_times) + 1
          /\ is_recovering /\ ~is_recovering']_vars

\* Two restorations, the first one's window closed with a sample.
C7_Witness == Restorations >= 2 /\ Len(recovery_times) >= 1

\* The step is the scheduler closing the recovery window (a catastrophe also
\* clears is_recovering, with the system down).
ClosesWindow == is_recovering /\ ~is_recovering' /\ system_operational'

\* The step runs a pass of the run loop from `while True`.
RunLoopPass ==
  queue # <<>> /\ Head(queue).kind \in {"run_init", "run_timeout", "ended"}

\* What the run loop's recovery check sees.
Drained == Len(cpu_users) = 0 /\ ready_queue = <<>>

\* The parts of C8 that do not say what is recorded: the window is closed by
\* the first pass of the run loop that sees the system operational, drained and
\* recovering, and nothing is recorded unless the system is drained.
WindowClosedWhenDrained ==
  /\ ClosesWindow => RunLoopPass /\ Drained
  /\ (RunLoopPass /\ system_operational /\ is_recovering /\ Drained) => ~is_recovering'
  /\ Len(recovery_times') > Len(recovery_times) => ClosesWindow

\* C8, as claimed: closing the window always records one sample, equal to
\* now - last_restoration_time >= 0.
C8_Original ==
  [][/\ WindowClosedWhenDrained
     /\ ClosesWindow =>
          /\ now' - last_restoration_time >= 0
          /\ recovery_times' = Append(recovery_times, now' - last_restoration_time)]_vars

\* C8, amended: closing the window records the sample only if it is longer
\* than 1e-6; a window closed at the very instant of the restoration is
\* closed without a sample.
C8_SampleUnlessZero ==
  [][/\ WindowClosedWhenDrained
     /\ ClosesWindow =>
          /\ now' - last_restoration_time >= 0
          /\ recovery_times' =
               IF now' - last_restoration_time > 0
               THEN Append(recovery_times, now' - last_restoration_time)
               ELSE recovery_times]_vars

\* A window has been closed with a sample after work admitted during it drained.
C8_Witness ==
  /\ recovery_times # <<>>
  /\ ~is_recovering /\ system_operational
  /\ \E i \in 1..Len(log) :
       /\ log[i].kind = "COMPLETE"
       /\ \E j \in 1..(i - 1) : log[j].kind = "RESTORED"

\* The lines of the CPU grants that record a wait time.
Executes == SelectSeq(log, LAMBDA l : l.kind = "EXECUTE")

\* C9: every wait time recorded is >= 0 and is the time of the process's first
\* CPU grant (its service start under FCFS and SJF) minus its arrival_time, and
\* no process contributes two samples.
C9_WaitTimes ==
  /\ Len(wait_times) = Len(Executes)
  /\ \A i \in 1..Len(Executes) :
       /\ wait_times[i] >= 0
       /\ wait_times[i] = Executes[i].at - procs[Executes[i].pid].arrival_time
       /\ \A j \in 1..Len(Executes) : Executes[j].pid = Executes[i].pid => j = i
  /\ \A k \in 1..Len(log) : log[k].kind = "EXECUTE" =>
       \A j \in 1..(k - 1) :
         ~(log[j].pid = log[k].pid /\ log[j].kind \in {"EXECUTE", "RESUME"})

\* Round-Robin: a process that waited has been served in two slices.
C9_Witness ==
  /\ policy = "RR"
  /\ \E i \in 1..Len(log) : log[i].kind = "RESUME"
  /\ \E i \in 1..Len(wait_times) : wait_times[i] > 0

\* C10: burst_time_remaining starts at burst_time_initial, never increases,
\* and is never negative.
C10_RemainingDemand ==
  /\ [](\A p \in 1..Len(procs) :
          /\ procs[p].burst_time_remaining >= 0
          /\ procs[p].burst_time_remaining <= procs[p].burst_time_initial)
  /\ [][/\ \A p \in 1..Len(procs) :
             /\ procs'[p].burst_time_remaining <= procs[p].burst_time_remaining
             /\ procs'[p].burst_time_initial = procs[p].burst_time_initial
        /\ \A p \in (Len(procs) + 1)..Len(procs') :
             procs'[p].burst_time_remaining = procs'[p].burst_time_initial]_vars

\* A Round-Robin process longer than the quantum has run its final slice.
C10_Witness ==
  /\ policy = "RR"
  /\ \E p \in 1..Len(procs) :
       /\ procs[p].burst_time_initial > RR_QUANTUM
       /\ procs[p].burst_time_remaining = 0
       /\ act[p].pc = "done"

\* The [COMPLETE] lines so far name process p.
Completed(p) == \E i \in 1..Len(log) : log[i].kind = "COMPLETE" /\ log[i].pid = p

\* C11: under every policy burst_time_remaining is 0 at the moment the
\* process's completion is logged, and is positive at every earlier moment.
C11_ZeroAtCompletion ==
  /\ [](\A p \in 1..Len(procs) : ~Completed(p) => procs[p].burst_time_remaining > 0)
  /\ [][\A i \in 1..Len(NewLines) :
          NewLines[i].kind = "COMPLETE" =>
            procs'[NewLines[i].pid].burst_time_remaining = 0]_vars

\* ceil(d / q)
CeilDiv(d, q) == (d + q - 1) \div q

\* The positions of the log at which a slice of p begins, and at which one ends.
SliceStarts(p) ==
  {i \in 1..Len(log) : log[i].pid = p /\ log[i].kind \in {"EXECUTE", "RESUME"}}

SliceEnds(p) ==
  {i \in 1..Len(log) : log[i].pid = p /\ log[i].kind \in {"PREEMPT", "COMPLETE"}}

\* The position at which the slice begun at position i ends.
EndOf(p, i) == CHOOSE j \in SliceEnds(p) : j > i /\ \A k \in SliceEnds(p) : k > i => j <= k

RECURSIVE SumOver(_, _)
SumOver(S, f) ==
  IF S = {} THEN 0
  ELSE LET x == CHOOSE y \in S : TRUE IN f[x] + SumOver(S \ {x}, f)

\* No catastrophe has been logged since p was admitted.
Undisturbed(p) ==
  \A i \in 1..Len(log) : log[i].kind = "CATASTROPHE" => log[i].at < procs[p].arrival_time

\* Round-Robin, a completed process no catastrophe touched: the slices it was
\* served in are ceil(d / q) in number, each no longer than q, and sum to d.
SlicesOf(p) ==
  LET d == procs[p].burst_time_initial
      len == [i \in SliceStarts(p) |-> log[EndOf(p, i)].at - log[i].at]
  IN /\ Cardinality(SliceStarts(p)) = CeilDiv(d, RR_QUANTUM)
     /\ Cardinality(SliceEnds(p)) = CeilDiv(d, RR_QUANTUM)
     /\ \A i \in SliceStarts(p) : len[i] > 0 /\ len[i] <= RR_QUANTUM
     /\ SumOver(SliceStarts(p), len) = d

\* A step that logs [PREEMPT] for p under Round-Robin puts p at the tail of the
\* deque, behind everything queued, and p's request leaves the cpu.
RequeuedAtTail ==
  \A i \in 1..Len(NewLines) :
    NewLines[i].kind = "PREEMPT" =>
      /\ ready_queue' = Append(ready_queue, NewLines[i].pid)
      /\ NewLines[i].pid \notin Range(cpu_users')
      /\ procs'[NewLines[i].pid].burst_time_remaining > 0

\* C12: Round-Robin, absent catastrophe: a process of demand d is served in
\* ceil(d / q) slices, each <= q, that sum to d, and after every slice but the
\* last it goes to the tail of the ready deque instead of keeping the cpu.
C12_RoundRobinSlices ==
  /\ [](policy = "RR" =>
          \A p \in 1..Len(procs) : (Completed(p) /\ Undisturbed(p)) => SlicesOf(p))
  /\ [][(policy = "RR") => RequeuedAtTail]_vars

\* A Round-Robin process longer than the quantum was sent behind a queued
\* process after its first slice, and has completed, with no catastrophe.
C12_Witness ==
  /\ policy = "RR"
  /\ \E p \in 1..Len(procs) :
       /\ procs[p].burst_time_initial > RR_QUANTUM
       /\ Completed(p) /\ Undisturbed(p)
       /\ \E i, j, k \in 1..Len(log) :
            /\ i < j /\ j < k
            /\ log[i].kind = "PREEMPT" /\ log[i].pid = p
            /\ log[j].kind = "EXECUTE" /\ log[j].pid # p
            /\ log[k].kind = "RESUME" /\ log[k].pid = p

\* The queue holds an Interruption of p's serve_process by a preempting request.
PreemptionPending(q, p) ==
  \E i \in 1..Len(q) :
    q[i].kind = "interrupt" /\ q[i].pid = p /\ q[i].cause = "preempted"

\* The time of p's [EXECUTE] line: when p's serve_process resumed with the cpu.
ExecuteAt(p) ==
  LET i == CHOOSE j \in 1..Len(log) : log[j].kind = "EXECUTE" /\ log[j].pid = p
  IN log[i].at

\* a goes before b among the requests for the cpu: a higher priority (a smaller
\* number), or the same priority and an earlier admission.
GoesBefore(a, b) ==
  \/ procs[a].priority < procs[b].priority
  \/ procs[a].priority = procs[b].priority /\ a < b

\* The step in which the serve_process of a newly admitted n requests the cpu
\* while h holds it.
RequestAgainstHolder(n, h) ==
  IF procs[h].priority > procs[n].priority
  THEN /\ cpu_users' = <<n>>
       /\ PreemptionPending(queue', h)
       /\ \E i \in 1..Len(queue') :
            queue'[i].kind = "req" /\ queue'[i].pid = n /\ queue'[i].time = now'
       /\ procs'[n].arrival_time = now'
  ELSE /\ cpu_users' = cpu_users
       /\ n \in Range(cpu_queue')
       /\ ~PreemptionPending(queue', h)
       /\ act'[h] = act[h]

\* The step in which a displaced holder's serve_process handles the interruption.
Displaced(h) ==
  /\ procs'[h].burst_time_remaining =
       procs[h].burst_time_remaining - (now' - ExecuteAt(h))
  /\ now' - ExecuteAt(h) >= 0
  /\ \E n \in Range(cpu_users') :
       procs[n].priority < procs[h].priority /\ procs[n].arrival_time = now'

PreemptionStep ==
  /\ \A n \in Pids :
       (act[n].pc = "init" /\ act'[n].pc # "init" /\ Len(cpu_users) = 1) =>
         RequestAgainstHolder(n, cpu_users[1])
  /\ \A h \in Pids :
       (act[h].pc # "preempted" /\ act'[h].pc = "preempted") => Displaced(h)
  /\ \A g \in Range(cpu_users') \ Range(cpu_users) :
       \A w \in Range(cpu_queue') : GoesBefore(g, w)

\* C13: Preemptive Priority: a request admitted against a holder of strictly
\* lower priority displaces it and is granted the cpu at that instant, and the
\* displaced process's burst_time_remaining falls by the time since its grant;
\* against a holder of equal or higher priority the request waits and nobody
\* is interrupted; waiters are granted by priority, first come first served
\* among equals.
C13_PreemptionByPriority ==
  /\ [](policy = "PP" =>
          \A i, j \in 1..Len(cpu_queue) : i < j => GoesBefore(cpu_queue[i], cpu_queue[j]))
  /\ [][(policy = "PP") => PreemptionStep]_vars

\* A holder has been displaced, and of two waiting requests the one admitted
\* later, of higher priority, stands first.
C13_Witness ==
  /\ policy = "PP"
  /\ \E h \in Pids : act[h].pc = "preempted"
  /\ Len(cpu_queue) >= 2
  /\ cpu_queue[1] > cpu_queue[2]

\* The processes the step takes out of ready structure sid.
Taken(sid) == Range(stores[sid]) \ Range(stores'[sid])

\* t is the one SJF should take among the processes q queued with it: the
\* shortest burst_time_initial, and of several shortest the earliest admitted.
ShortestFirst(t, q) ==
  \/ procs[t].burst_time_initial < procs[q].burst_time_initial
  \/ procs[t].burst_time_initial = procs[q].burst_time_initial /\ t <= q

\* C14: whenever the SJF scheduler takes a process from its ready queue, that
\* process has the least burst_time_initial of all those queued, and among
\* those of equal burst_time_initial it is the one admitted first.
C14_ShortestJobFirst ==
  [][(policy = "SJF") =>
        \A sid \in 1..Len(stores) : \A t \in Taken(sid) :
          \A q \in Range(stores[sid]) : ShortestFirst(t, q)]_vars

\* The log, read for one service under FCFS: after the [EXECUTE] line at
\* position i, no other process starts before this one's service has ended,
\* with [COMPLETE] a whole burst_time_initial later or with [INTERRUPT] after
\* a catastrophe.
ServedWhole(i) ==
  LET p == log[i].pid
      ends == {k \in (i + 1)..Len(log) :
                 log[k].pid = p /\ log[k].kind \in {"COMPLETE", "INTERRUPT"}}
  IN /\ \A j \in (i + 1)..Len(log) :
          log[j].kind = "EXECUTE" => \E k \in ends : k < j
     /\ \A k \in ends :
          IF log[k].kind = "COMPLETE"
          THEN log[k].at = log[i].at + procs[p].burst_time_initial
          ELSE \E c \in (i + 1)..(k - 1) : log[c].kind = "CATASTROPHE"

\* A step that ends a burst under FCFS: the process completes, having held the
\* cpu since its grant for burst_time_initial, or a catastrophe interrupted it.
BurstEnds(p) ==
  \/ /\ act'[p].pc = "done"
     /\ now' = ExecuteAt(p) + procs[p].burst_time_initial
  \/ /\ act'[p].pc = "failed"
     /\ \E c \in 1..Len(log) : log[c].kind = "CATASTROPHE" /\ log[c].at >= ExecuteAt(p)

\* C15: FCFS: processes start service in the order they were admitted, and a
\* process that has started keeps the cpu for its whole burst_time_initial, no
\* other process being served meanwhile, unless a catastrophe interrupts it.
C15_FirstComeFirstServed ==
  /\ [](policy = "FCFS" =>
          /\ \A i, j \in 1..Len(Executes) : i < j => Executes[i].pid < Executes[j].pid
          /\ \A i \in 1..Len(log) : log[i].kind = "EXECUTE" => ServedWhole(i)
          /\ \A p \in Executing : cpu_users = <<p>>)
  /\ [][(policy = "FCFS") =>
          \A p \in Pids : (act[p].pc = "exec" /\ act'[p].pc # "exec") => BurstEnds(p)]_vars

\* FCFS: two processes waited in the queue together and were served in turn,
\* the first of them to completion.
C15_Witness ==
  /\ policy = "FCFS"
  /\ \E i, j \in 1..Len(Executes) :
       /\ i < j
       /\ procs[Executes[j].pid].arrival_time < Executes[i].at
       /\ procs[Executes[i].pid].arrival_time < Executes[i].at
       /\ Completed(Executes[i].pid)

\* The catastrophes and the restorations logged, in order.
CatastropheLines == SelectSeq(log, LAMBDA l : l.kind = "CATASTROPHE")

RestoredLines == SelectSeq(log, LAMBDA l : l.kind = "RESTORED")

\* The time from catastrophe to restoration, summed over the first n repairs.
RECURSIVE RepairsSum(_)
RepairsSum(n) ==
  IF n = 0 THEN 0
  ELSE (RestoredLines[n].at - CatastropheLines[n].at) + RepairsSum(n - 1)

\* C16: total_downtime is the sum of the repair durations of the completed
\* repairs and lies in [0, now], so availability lies in [0, 100]; with no
\* catastrophe it is 0 (availability 100), after one completed repair of
\* duration D it is D; it changes only when a repair completes.
C16_DowntimeAccounting ==
  /\ [](/\ total_downtime = RepairsSum(Len(RestoredLines))
        /\ 0 <= total_downtime /\ total_downtime <= now
        /\ 0 <= availability /\ availability <= 100
        /\ CatastropheLines = <<>> => (total_downtime = 0 /\ availability = 100)
        /\ Len(RestoredLines) = 1 =>
             (total_downtime \in RepairSet /\
              total_downtime = RestoredLines[1].at - CatastropheLines[1].at))
  /\ [][total_downtime' # total_downtime =>
          /\ ~system_operational /\ system_operational'
          /\ total_downtime' = total_downtime + repair_duration]_vars

\* Two repairs have completed and both are in total_downtime.
C16_Witness ==
  /\ Len(RestoredLines) = 2
  /\ total_downtime = RepairsSum(2)
  /\ total_downtime > RestoredLines[2].at - CatastropheLines[2].at

\* The time for which system_operational has been false so far.
TimeDown ==
  RepairsSum(Len(RestoredLines)) +
    (IF system_operational THEN 0
     ELSE now - CatastropheLines[Len(CatastropheLines)].at)

\* C20: at any instant at which the run may end total_downtime is all the time
\* system_operational has been false, a repair still in progress included.
C20_DowntimeIncludesOpenRepair == total_downtime = TimeDown

\* The displaced processes: Preemptive Priority has logged [PREEMPT] for them.
Preempted == {p \in Pids : \E i \in 1..Len(log) : log[i].kind = "PREEMPT" /\ log[i].pid = p}

\* C17: Preemptive Priority: once a higher-priority request has interrupted a
\* process's serve_process, that activity is over and no new request is made
\* for the process: it never waits for or holds the cpu again and never logs
\* completion, even when the cpu is free with no requester.
C17_DisplacedNeverRequeued ==
  /\ [](policy = "PP" =>
          \A p \in Preempted :
            /\ act[p].pc = "preempted"
            /\ p \notin Range(cpu_users) \cup Range(cpu_queue) \cup Range(active_processes)
            /\ ~Completed(p)
            /\ \A i \in 1..Len(queue) : queue[i].pid = p => queue[i].kind = "release")
  /\ [][(policy = "PP") =>
          \A p \in Preempted : \A i \in 1..Len(NewLines) : NewLines[i].pid # p]_vars

\* A displaced process with work left, the system operational, the cpu free
\* and nobody requesting it.
C17_Witness ==
  /\ policy = "PP"
  /\ system_operational
  /\ cpu_users = <<>> /\ cpu_queue = <<>>
  /\ \A i \in 1..Len(queue) : queue[i].kind \notin {"req", "release", "serve_init"}
  /\ \E p \in Preempted : procs[p].burst_time_remaining > 0

\* The service of p is under way: its serve_process waits for or holds the
\* cpu, or it is in a ready structure between two Round-Robin slices or is
\* being handed to the run loop.
InService(p) ==
  \/ act[p].pc \in {"init", "req", "exec"}
  \/ \E sid \in 1..Len(stores) : p \in Range(stores[sid])
  \/ \E i \in 1..Len(queue) : queue[i].pid = p /\ queue[i].kind \in {"get", "ended"}

\* C18: wait_times holds the wait times of processes that completed: every
\* entry belongs to a process that has run to completion, or is still on its
\* way to it; a process stopped by a catastrophe or a preemption has none.
C18_WaitTimesOfCompleted ==
  /\ Len(wait_times) = Len(Executes)
  /\ \A i \in 1..Len(Executes) :
       Completed(Executes[i].pid) \/ InService(Executes[i].pid)

\* C19: Preemptive Priority: every process in the ready deque has a live
\* serve_process, waiting for the cpu or holding it; so when all admitted work
\* has finished or stopped and the cpu is idle, the deque is empty.
C19_DequeHoldsLiveWork ==
  policy = "PP" =>
    /\ \A p \in Range(ready_queue) : act[p].pc \in {"init", "req", "exec"}
    /\ (cpu_users = <<>> /\ \A p \in Pids : act[p].pc \notin {"init", "req", "exec"})
         => ready_queue = <<>>

====
